---- MODULE Spec2Model ----
(***************************************************************************)
(* Model of the go-freshdesk client: the request/response pipeline of     *)
(* client.go (newRequest, do, Request.Payload, Response.Payload), the     *)
(* error model (NewApiError, APIError.Error, APIError.IsDuplicate) and    *)
(* the contact operations built on them.                                  *)
(*                                                                         *)
(* Byte strings and Go strings are "texts": sequences of lexical tokens   *)
(* tagged with their kind.  JSON texts are scanned, parsed, compacted and  *)
(* encoded at the token level; only the spelling of a single token        *)
(* (string escapes, digits, base64 digits) is not modelled.               *)
(***************************************************************************)
EXTENDS Integers, Sequences, FiniteSets, TLC

(***************************************************************************)
(* Tokens and texts                                                        *)
(***************************************************************************)
\* every kind of token keeps its lexeme in a field of its own
Tok(k, v) == [k |-> k, v |-> v]

LBrace == Tok("p", "{")
RBrace == Tok("p", "}")
LBrack == Tok("p", "[")
RBrack == Tok("p", "]")
Colon == Tok("p", ":")
Comma == Tok("p", ",")
Space == Tok("ws", " ")
Garbage == Tok("bad", "<")
StrTok(s) == Tok("str", s)
NumTok(n) == [k |-> "num", n |-> n]
LitTok(l) == Tok("lit", l)
B64Tok(bytes) == [k |-> "b64", bytes |-> bytes]

\* a Go string whose content is the (non-JSON) word s
StrText(s) == IF s = "" THEN << >> ELSE << Tok("raw", s) >>

RECURSIVE Render(_)
\* the characters of a text, as fmt and string concatenation see them
Render(toks) ==
    IF toks = << >> THEN ""
    ELSE LET tk == Head(toks)
             lex == CASE tk.k = "str" -> "\"" \o tk.v \o "\""
                      [] tk.k = "num" -> ToString(tk.n)
                      [] tk.k = "b64" -> "\"base64:" \o Render(tk.bytes) \o "\""
                      [] OTHER -> tk.v
         IN lex \o Render(Tail(toks))

(***************************************************************************)
(* JSON values                                                             *)
(***************************************************************************)
\* every type of value keeps its content in a field of its own
JNull == [t |-> "null"]
JBool(b) == [t |-> "bool", b |-> b]
JNum(n) == [t |-> "num", n |-> n]
JStr(s) == [t |-> "str", s |-> s]
JB64(bytes) == [t |-> "b64", bytes |-> bytes]
JArr(elems) == [t |-> "arr", elems |-> elems]
JObj(members) == [t |-> "obj", members |-> members]
Member(key, val) == [key |-> key, val |-> val]

(***************************************************************************)
(* encoding/json scanner: one value starting at position i                *)
(***************************************************************************)
ParseFail == [ok |-> FALSE, val |-> JNull, next |-> 0]
ParseOk(val, next) == [ok |-> TRUE, val |-> val, next |-> next]

RECURSIVE SkipWs(_, _)
SkipWs(toks, i) ==
    IF i <= Len(toks) /\ toks[i].k = "ws" THEN SkipWs(toks, i + 1) ELSE i

IsP(toks, i, p) == i <= Len(toks) /\ toks[i].k = "p" /\ toks[i].v = p

RECURSIVE ParseValue(_, _)
RECURSIVE ParseElems(_, _, _)
RECURSIVE ParseMembers(_, _, _)

ParseValue(toks, i0) ==
    LET i == SkipWs(toks, i0) IN
    IF i > Len(toks) THEN ParseFail
    ELSE LET tk == toks[i] IN
         CASE tk.k = "str" -> ParseOk(JStr(tk.v), i + 1)
           [] tk.k = "b64" -> ParseOk(JB64(tk.bytes), i + 1)
           [] tk.k = "num" -> ParseOk(JNum(tk.n), i + 1)
           [] tk.k = "lit" ->
                ParseOk(IF tk.v = "null" THEN JNull ELSE JBool(tk.v = "true"), i + 1)
           [] IsP(toks, i, "[") ->
                LET j == SkipWs(toks, i + 1) IN
                IF IsP(toks, j, "]") THEN ParseOk(JArr(<< >>), j + 1)
                ELSE ParseElems(toks, j, << >>)
           [] IsP(toks, i, "{") ->
                LET j == SkipWs(toks, i + 1) IN
                IF IsP(toks, j, "}") THEN ParseOk(JObj(<< >>), j + 1)
                ELSE ParseMembers(toks, j, << >>)
           [] OTHER -> ParseFail

ParseElems(toks, i, acc) ==
    LET r == ParseValue(toks, i) IN
    IF ~r.ok THEN ParseFail
    ELSE LET j == SkipWs(toks, r.next)
             acc2 == Append(acc, r.val)
         IN IF IsP(toks, j, ",") THEN ParseElems(toks, j + 1, acc2)
            ELSE IF IsP(toks, j, "]") THEN ParseOk(JArr(acc2), j + 1)
            ELSE ParseFail

ParseMembers(toks, i0, acc) ==
    LET i == SkipWs(toks, i0) IN
    IF ~(i <= Len(toks) /\ toks[i].k = "str") THEN ParseFail
    ELSE LET c == SkipWs(toks, i + 1) IN
         IF ~IsP(toks, c, ":") THEN ParseFail
         ELSE LET r == ParseValue(toks, c + 1) IN
              IF ~r.ok THEN ParseFail
              ELSE LET j == SkipWs(toks, r.next)
                       acc2 == Append(acc, Member(toks[i].v, r.val))
                   IN IF IsP(toks, j, ",") THEN ParseMembers(toks, j + 1, acc2)
                      ELSE IF IsP(toks, j, "}") THEN ParseOk(JObj(acc2), j + 1)
                      ELSE ParseFail

\* json.checkValid: the whole text is exactly one value, space around it allowed
CheckValid(toks) ==
    LET r == ParseValue(toks, 1) IN
    r.ok /\ SkipWs(toks, r.next) > Len(toks)

\* json.Compact: fails on invalid input, else drops the insignificant space
Compact(toks) ==
    IF CheckValid(toks)
    THEN [err |-> FALSE, out |-> SelectSeq(toks, LAMBDA tk : tk.k # "ws")]
    ELSE [err |-> TRUE, out |-> << >>]

(***************************************************************************)
(* encoding/json encoder (json.Marshal writes compact text)               *)
(***************************************************************************)
RECURSIVE Encode(_)
RECURSIVE EncodeElems(_)
RECURSIVE EncodeMembers(_)

Encode(val) ==
    CASE val.t = "null" -> << LitTok("null") >>
      [] val.t = "bool" -> << LitTok(IF val.b THEN "true" ELSE "false") >>
      [] val.t = "num" -> << NumTok(val.n) >>
      [] val.t = "str" -> << StrTok(val.s) >>
      [] val.t = "b64" -> << B64Tok(val.bytes) >>
      [] val.t = "arr" -> << LBrack >> \o EncodeElems(val.elems) \o << RBrack >>
      [] val.t = "obj" -> << LBrace >> \o EncodeMembers(val.members) \o << RBrace >>

EncodeElems(elems) ==
    IF elems = << >> THEN << >>
    ELSE Encode(Head(elems))
         \o (IF Len(elems) > 1 THEN << Comma >> ELSE << >>)
         \o EncodeElems(Tail(elems))

EncodeMembers(members) ==
    IF members = << >> THEN << >>
    ELSE << StrTok(Head(members).key), Colon >> \o Encode(Head(members).val)
         \o (IF Len(members) > 1 THEN << Comma >> ELSE << >>)
         \o EncodeMembers(Tail(members))

(***************************************************************************)
(* Error model: APIError, FieldError, NewApiError, Error, IsDuplicate      *)
(***************************************************************************)
\* encoding/json matches an object key to a struct field by exact name and
\* otherwise ignoring case: Fold is the folded spelling of the keys in use
Fold(key) ==
    CASE key \in {"Err", "err", "ERR"} -> "err"
      [] key \in {"ReqBody", "reqbody", "REQBODY"} -> "reqbody"
      [] key \in {"ResBody", "resbody", "RESBODY"} -> "resbody"
      [] key \in {"StatusCode", "statuscode", "STATUSCODE"} -> "statuscode"
      [] key \in {"Description", "description", "DESCRIPTION"} -> "description"
      [] key \in {"Errors", "errors", "ERRORS"} -> "errors"
      [] key \in {"Field", "field", "FIELD"} -> "field"
      [] key \in {"Code", "code", "CODE"} -> "code"
      [] key \in {"Message", "message", "MESSAGE"} -> "message"
      [] key \in {"Additional_Info", "additional_info", "ADDITIONAL_INFO"} -> "additional_info"
      [] key \in {"Id", "id", "ID"} -> "id"
      [] key \in {"Name", "name", "NAME"} -> "name"
      [] key \in {"Email", "email", "EMAIL"} -> "email"
      [] key \in {"Active", "active", "ACTIVE"} -> "active"
      [] key \in {"Label", "label", "LABEL"} -> "label"
      [] key \in {"View_All_Tickets", "view_all_tickets", "VIEW_ALL_TICKETS"} ->
            "view_all_tickets"
      [] OTHER -> key

NilMap == [key \in {} |-> JNull]

\* type FieldError: the zero value
ZeroFieldError ==
    [Field |-> "", AdditionalInfo |-> NilMap, Message |-> "", Code |-> ""]

RECURSIVE DecodeMap(_, _)
\* a JSON object's members stored into a map[string]interface{}, the last
\* occurrence of a key winning; the values stay dynamic JSON values
DecodeMap(old, members) ==
    IF members = << >> THEN old
    ELSE LET m == Head(members)
             put == [key \in DOMAIN old \cup {m.key} |->
                        IF key = m.key THEN m.val ELSE old[key]]
         IN DecodeMap(put, Tail(members))

\* one member of a JSON object stored into a FieldError
DecodeFieldErrorMember(fe, m) ==
    LET f == Fold(m.key) IN
    CASE f = "field" /\ m.val.t = "str" -> [fe EXCEPT !.Field = m.val.s]
      [] f = "message" /\ m.val.t = "str" -> [fe EXCEPT !.Message = m.val.s]
      [] f = "code" /\ m.val.t = "str" -> [fe EXCEPT !.Code = m.val.s]
      [] f = "additional_info" /\ m.val.t = "obj" ->
            [fe EXCEPT !.AdditionalInfo = DecodeMap(fe.AdditionalInfo, m.val.members)]
      [] f = "additional_info" /\ m.val.t = "null" ->
            [fe EXCEPT !.AdditionalInfo = NilMap]
      [] OTHER -> fe

RECURSIVE DecodeFieldErrorMembers(_, _)
DecodeFieldErrorMembers(fe, members) ==
    IF members = << >> THEN fe
    ELSE DecodeFieldErrorMembers(DecodeFieldErrorMember(fe, Head(members)),
                                 Tail(members))

\* a JSON value stored into a fresh FieldError element of the Errors slice:
\* anything but an object leaves the zero value
DecodeFieldError(val) ==
    IF val.t = "obj" THEN DecodeFieldErrorMembers(ZeroFieldError, val.members)
    ELSE ZeroFieldError

RECURSIVE DecodeFieldErrors(_)
DecodeFieldErrors(elems) ==
    IF elems = << >> THEN << >>
    ELSE << DecodeFieldError(Head(elems)) >> \o DecodeFieldErrors(Tail(elems))

\* the error value held by APIError.Err
NilErr == [nil |-> TRUE, msg |-> ""]
ErrorOf(msg) == [nil |-> FALSE, msg |-> msg]

\* one member of a JSON object stored into an APIError.  No field of the
\* struct is excluded from decoding: the untagged Err, ReqBody, ResBody and
\* StatusCode are matched by their Go names.  A value of the wrong type is
\* skipped; null is stored only into the interface and the slice.
DecodeAPIErrorMember(e, m) ==
    LET f == Fold(m.key) IN
    CASE f = "err" /\ m.val.t = "null" -> [e EXCEPT !.Err = NilErr]
      [] f = "reqbody" /\ m.val.t = "str" -> [e EXCEPT !.ReqBody = StrText(m.val.s)]
      [] f = "resbody" /\ m.val.t = "str" -> [e EXCEPT !.ResBody = StrText(m.val.s)]
      [] f = "statuscode" /\ m.val.t = "num" -> [e EXCEPT !.StatusCode = m.val.n]
      [] f = "description" /\ m.val.t = "str" -> [e EXCEPT !.Description = m.val.s]
      [] f = "errors" /\ m.val.t = "arr" ->
            [e EXCEPT !.Errors = DecodeFieldErrors(m.val.elems)]
      [] f = "errors" /\ m.val.t = "null" -> [e EXCEPT !.Errors = << >>]
      [] OTHER -> e

RECURSIVE DecodeAPIErrorMembers(_, _)
DecodeAPIErrorMembers(e, members) ==
    IF members = << >> THEN e
    ELSE DecodeAPIErrorMembers(DecodeAPIErrorMember(e, Head(members)),
                               Tail(members))

\* json.Unmarshal(data, *APIError): nothing is stored unless data is valid
\* JSON holding an object
UnmarshalAPIError(e, data) ==
    IF ~CheckValid(data) THEN e
    ELSE LET val == ParseValue(data, 1).val IN
         IF val.t = "obj" THEN DecodeAPIErrorMembers(e, val.members) ELSE e

\* fmt.Errorf("received status code %d (%d expected)", ...)
StatusMessage(statusCode, expectedStatus) ==
    "received status code " \o ToString(statusCode)
        \o " (" \o ToString(expectedStatus) \o " expected)"

NewApiError(statusCode, expectedStatus, req, res) ==
    LET i == [Err |-> ErrorOf(StatusMessage(statusCode, expectedStatus)),
              ReqBody |-> req,
              ResBody |-> res,
              Description |-> "",
              Errors |-> << >>,
              StatusCode |-> statusCode]
    IN UnmarshalAPIError(i, res)

\* APIError.Error: a call on a nil Err faults
Error(e) ==
    IF e.Err.nil THEN [fault |-> TRUE, msg |-> ""]
    ELSE [fault |-> FALSE, msg |-> e.Err.msg \o " - " \o Render(e.ResBody)]

IsDupEntry(fe) == fe.Field = "email" /\ fe.Code = "duplicate_value"

RECURSIVE IsDuplicateFrom(_, _)
\* the loop of IsDuplicate from index i: the first email/duplicate_value
\* entry decides; a user_id that is not a float64 fails the type assertion
IsDuplicateFrom(errors, i) ==
    IF i > Len(errors) THEN [fault |-> FALSE, dup |-> FALSE, id |-> 0]
    ELSE LET err == errors[i] IN
         IF IsDupEntry(err)
         THEN IF "user_id" \notin DOMAIN err.AdditionalInfo
                 \/ err.AdditionalInfo["user_id"].t = "null"
              THEN [fault |-> FALSE, dup |-> FALSE, id |-> 0]
              ELSE IF err.AdditionalInfo["user_id"].t = "num"
                   THEN [fault |-> FALSE, dup |-> TRUE,
                         id |-> err.AdditionalInfo["user_id"].n]
                   ELSE [fault |-> TRUE, dup |-> FALSE, id |-> 0]
         ELSE IsDuplicateFrom(errors, i + 1)

IsDuplicate(e) == IsDuplicateFrom(e.Errors, 1)

(***************************************************************************)
(* Resource records: Contact and ContactField.  The fields modelled are   *)
(* ID, Active, ViewAllTickets, Name, Description and Email of Contact and *)
(* ID, Label and Name of ContactField; the remaining fields are optional  *)
(* ones that stay unset and are absent from the bodies considered.        *)
(***************************************************************************)
NilString == [nil |-> TRUE]
StringPtr(s) == [nil |-> FALSE, s |-> s]

ZeroContact ==
    [ID |-> 0, Active |-> FALSE, ViewAllTickets |-> FALSE, Name |-> "",
     Description |-> NilString, Email |-> ""]

NilContact == [nil |-> TRUE]
ContactPtr(c) == [nil |-> FALSE, c |-> c]

ZeroContactField == [ID |-> 0, Label |-> "", Name |-> ""]

\* the JSON object json.Marshal writes for a Contact: fields in declaration
\* order, the omitempty ones left out when empty
ContactValue(c) ==
    JObj((IF c.ID = 0 THEN << >> ELSE << Member("id", JNum(c.ID)) >>)
         \o << Member("active", JBool(c.Active)),
               Member("view_all_tickets", JBool(c.ViewAllTickets)),
               Member("name", JStr(c.Name)) >>
         \o (IF c.Description.nil THEN << >>
             ELSE << Member("description", JStr(c.Description.s)) >>)
         \o (IF c.Email = "" THEN << >> ELSE << Member("email", JStr(c.Email)) >>))

ContactPtrValue(p) == IF p.nil THEN JNull ELSE ContactValue(p.c)

\* a decoding step's outcome: the value stored and the first error met
Stored(val) == [err |-> "", val |-> val]
Mistyped(val) == [err |-> "type", val |-> val]

\* one member of a JSON object stored into a Contact (null leaves scalars)
DecodeContactMember(c, m) ==
    LET f == Fold(m.key)
        ty == m.val.t
    IN
    CASE ty = "null" /\ f = "description" -> Stored([c EXCEPT !.Description = NilString])
      [] ty = "null" -> Stored(c)
      [] f = "id" ->
            IF ty = "num" /\ m.val.n >= 0 THEN Stored([c EXCEPT !.ID = m.val.n])
            ELSE Mistyped(c)
      [] f = "active" ->
            IF ty = "bool" THEN Stored([c EXCEPT !.Active = m.val.b]) ELSE Mistyped(c)
      [] f = "view_all_tickets" ->
            IF ty = "bool" THEN Stored([c EXCEPT !.ViewAllTickets = m.val.b])
            ELSE Mistyped(c)
      [] f = "name" ->
            IF ty = "str" THEN Stored([c EXCEPT !.Name = m.val.s]) ELSE Mistyped(c)
      [] f = "description" ->
            IF ty = "str" THEN Stored([c EXCEPT !.Description = StringPtr(m.val.s)])
            ELSE Mistyped(c)
      [] f = "email" ->
            IF ty = "str" THEN Stored([c EXCEPT !.Email = m.val.s]) ELSE Mistyped(c)
      [] OTHER -> Stored(c)

RECURSIVE DecodeContactMembers(_, _, _)
DecodeContactMembers(c, members, err) ==
    IF members = << >> THEN [err |-> err, val |-> c]
    ELSE LET r == DecodeContactMember(c, Head(members)) IN
         DecodeContactMembers(r.val, Tail(members), IF err = "" THEN r.err ELSE err)

\* a JSON value stored into a Contact
DecodeContact(c, val) ==
    CASE val.t = "obj" -> DecodeContactMembers(c, val.members, "")
      [] val.t = "null" -> Stored(c)
      [] OTHER -> Mistyped(c)

DecodeContactFieldMember(cf, m) ==
    LET f == Fold(m.key)
        ty == m.val.t
    IN
    CASE ty = "null" -> Stored(cf)
      [] f = "id" ->
            IF ty = "num" /\ m.val.n >= 0 THEN Stored([cf EXCEPT !.ID = m.val.n])
            ELSE Mistyped(cf)
      [] f = "label" ->
            IF ty = "str" THEN Stored([cf EXCEPT !.Label = m.val.s]) ELSE Mistyped(cf)
      [] f = "name" ->
            IF ty = "str" THEN Stored([cf EXCEPT !.Name = m.val.s]) ELSE Mistyped(cf)
      [] OTHER -> Stored(cf)

RECURSIVE DecodeContactFieldMembers(_, _, _)
DecodeContactFieldMembers(cf, members, err) ==
    IF members = << >> THEN [err |-> err, val |-> cf]
    ELSE LET r == DecodeContactFieldMember(cf, Head(members)) IN
         DecodeContactFieldMembers(r.val, Tail(members),
                                   IF err = "" THEN r.err ELSE err)

\* a JSON value stored into an element of a slice of pointers: null is the
\* nil pointer, anything else allocates the record
DecodeElem(kind, val) ==
    IF val.t = "null" THEN Stored([nil |-> TRUE])
    ELSE LET r == IF kind = "contacts"
                  THEN DecodeContact(ZeroContact, val)
                  ELSE IF val.t = "obj"
                       THEN DecodeContactFieldMembers(ZeroContactField, val.members, "")
                       ELSE Mistyped(ZeroContactField)
         IN [err |-> r.err, val |-> [nil |-> FALSE, c |-> r.val]]

RECURSIVE DecodeElems(_, _, _, _)
DecodeElems(kind, elems, acc, err) ==
    IF elems = << >> THEN [err |-> err, val |-> acc]
    ELSE LET r == DecodeElem(kind, Head(elems)) IN
         DecodeElems(kind, Tail(elems), Append(acc, r.val),
                     IF err = "" THEN r.err ELSE err)

\* the decode targets the contact operations pass to do
NoTarget == [kind |-> "none"]
ContactTarget == [kind |-> "contact", val |-> ZeroContact]
ContactsTarget == [kind |-> "contacts", val |-> << >>]
FieldsTarget == [kind |-> "fields", val |-> << >>]

\* a JSON value stored into a decode target
DecodeInto(out, val) ==
    LET r == CASE out.kind = "contact" -> DecodeContact(out.val, val)
               [] val.t = "arr" -> DecodeElems(out.kind, val.elems, << >>, "")
               [] val.t = "null" -> Stored(<< >>)
               [] OTHER -> Mistyped(out.val)
    IN [err |-> r.err, out |-> [out EXCEPT !.val = r.val]]

(***************************************************************************)
(* Body streams                                                            *)
(***************************************************************************)
\* a reader over data; reads and closes are counted, reads after Close noted
Stream(data, reqBody) ==
    [data |-> data, pos |-> 0, closed |-> FALSE, reqBody |-> reqBody,
     reads |-> 0, closes |-> 0, late |-> 0]

Rest(st) == SubSeq(st.data, st.pos + 1, Len(st.data))

\* io.ReadAll: a closed response body fails the read, a closed request body
\* (a no-op closer over a bytes.Reader) still reads
ReadAll(st) ==
    LET fails == st.closed /\ ~st.reqBody IN
    [err |-> fails,
     data |-> IF fails THEN << >> ELSE Rest(st),
     st |-> [st EXCEPT !.pos = IF fails THEN @ ELSE Len(st.data),
                       !.reads = @ + 1,
                       !.late = IF st.closed THEN @ + 1 ELSE @]]

Close(st) == [st EXCEPT !.closed = TRUE, !.closes = @ + 1]

\* Request.Payload and Response.Payload
Compacted(c) == IF c.err THEN << >> ELSE c.out

PayloadRead(r) ==
    [s |-> IF r.err THEN << >> ELSE Compacted(Compact(r.data)), st |-> r.st]

Payload(st) == PayloadRead(ReadAll(st))

\* json.NewDecoder(body).Decode(out): reads the body, takes the first value
\* of the stream and stores it into out
DecodeValue(p, out) ==
    IF p.ok THEN DecodeInto(out, p.val) ELSE [err |-> "syntax", out |-> out]

DecodeData(failed, data, out) ==
    CASE failed -> [err |-> "closed", out |-> out]
      [] SkipWs(data, 1) > Len(data) -> [err |-> "EOF", out |-> out]
      [] OTHER -> DecodeValue(ParseValue(data, 1), out)

Decoded(d, st) == [err |-> d.err, out |-> d.out, st |-> st]

DecodeRead(r, out) == Decoded(DecodeData(r.err, r.data, out), r.st)

Decode(st, out) == DecodeRead(ReadAll(st), out)

(***************************************************************************)
(* Transport core: NewClient, newRequest, do                               *)
(***************************************************************************)
StatusOK == 200
StatusCreated == 201
StatusNoContent == 204

NewClient(subdomain, apiKey) ==
    [apiKey |-> apiKey,
     baseURL |-> "https://" \o subdomain \o ".freshdesk.com/api/v2/",
     httpClient |-> "retryable"]

\* the body argument of newRequest: an interface holding nothing, a *Contact
\* (possibly a nil pointer) or a []byte
NoBody == [kind |-> "nil"]
ContactBody(p) == [kind |-> "contact", ptr |-> p]
BytesBody(bytes) == [kind |-> "bytes", bytes |-> bytes]

\* json.Marshal(&body): a *Contact is written as its object (null for the nil
\* pointer); a []byte is written as a JSON string holding its base64 form
Marshal(body) ==
    IF body.kind = "contact" THEN Encode(ContactPtrValue(body.ptr))
    ELSE Encode(JB64(body.bytes))

\* a newRequest that passes the credentials in the wrong order
newRequestSwappedAuth(c, method, endpoint, body) ==
    [method |-> method,
     url |-> c.baseURL \o endpoint,
     username |-> "X",
     password |-> c.apiKey,
     contentType |-> "application/json",
     body |-> Stream(IF body.kind # "nil" THEN Marshal(body) ELSE << >>, TRUE)]

newRequest(c, method, endpoint, body) ==
    LET b == IF body.kind # "nil" THEN Marshal(body) ELSE << >> IN
    [method |-> method,
     url |-> c.baseURL \o endpoint,
     username |-> c.apiKey,
     password |-> "X",
     contentType |-> "application/json",
     body |-> Stream(b, TRUE)]

\* what c.httpClient.Do puts on the wire: the transport reads the request
\* body to its end and closes it
Sent(req) == [req EXCEPT !.body = ReadAll(req.body).data]
Consumed(req) == [req EXCEPT !.body = Close(ReadAll(@).st)]

\* the error values do returns
NilError == [kind |-> "nil"]
TransportError(e) == [kind |-> "transport", cause |-> e]
ApiError(e) == [kind |-> "api", api |-> e]
DecodeError(e) == [kind |-> "decode", syntax |-> e]

\* a do that wraps the transport's error into an APIError
doFailedWrapped(req, out, e) ==
    [err |-> ApiError(NewApiError(0, 0, Payload(Consumed(req).body).s, << >>)),
     out |-> out,
     req |-> [req EXCEPT !.body = Payload(Consumed(req).body).st],
     resp |-> [none |-> TRUE]]

\* do, when the transport returned an error
doFailed(req, out, e) ==
    [err |-> TransportError(e), out |-> out, req |-> Consumed(req),
     resp |-> [none |-> TRUE]]

\* do, from the response on, up to the return statement reached
\* the return statements of do
returnApiError(req, resp, out, expectedStatus, rq, rs) ==
    [err |-> ApiError(NewApiError(resp.StatusCode, expectedStatus, rq.s, rs.s)),
     out |-> out,
     req |-> [req EXCEPT !.body = rq.st],
     resp |-> [resp EXCEPT !.Body = rs.st]]

returnDecoded(req, resp, d) ==
    [err |-> IF d.err # "" THEN DecodeError(d.err) ELSE NilError,
     out |-> d.out,
     req |-> req,
     resp |-> [resp EXCEPT !.Body = d.st]]

returnNil(req, resp, out) ==
    [err |-> NilError, out |-> out, req |-> req, resp |-> resp]

\* a do that takes 200 for the expected status of every operation
doReturnOnlyOK(req, resp, out, expectedStatus) ==
    IF resp.StatusCode # StatusOK
    THEN returnApiError(req, resp, out, expectedStatus,
                        Payload(req.body), Payload(resp.Body))
    ELSE IF out.kind # "none"
         THEN returnDecoded(req, resp, Decode(resp.Body, out))
         ELSE returnNil(req, resp, out)

\* a do that decodes the body even when no target was passed
doReturnAlwaysDecodes(req, resp, out, expectedStatus) ==
    IF resp.StatusCode # expectedStatus
    THEN returnApiError(req, resp, out, expectedStatus,
                        Payload(req.body), Payload(resp.Body))
    ELSE IF out.kind # "none"
         THEN returnDecoded(req, resp, Decode(resp.Body, out))
         ELSE [returnDecoded(req, resp, Decode(resp.Body, ContactTarget))
                  EXCEPT !.out = out]

doReturn(req, resp, out, expectedStatus) ==
    IF resp.StatusCode # expectedStatus
    THEN returnApiError(req, resp, out, expectedStatus,
                        Payload(req.body), Payload(resp.Body))
    ELSE IF out.kind # "none"
         THEN returnDecoded(req, resp, Decode(resp.Body, out))
         ELSE returnNil(req, resp, out)

\* do, when the transport returned a response: the deferred Close of the
\* response body runs after whichever return statement was reached
\* a do that closes the body on the successful path only
closeOnSuccess(r) == IF r.err = NilError THEN [r EXCEPT !.resp.Body = Close(@)] ELSE r

deferredClose(r) == [r EXCEPT !.resp.Body = Close(@)]

doResponded(req, resp, out, expectedStatus) ==
    deferredClose(doReturn(Consumed(req), resp, out, expectedStatus))

(***************************************************************************)
(* Contact operations: the arguments each passes to newRequest and do     *)
(***************************************************************************)
Plan(method, endpoint, body, out, expectedStatus) ==
    [method |-> method, endpoint |-> endpoint, body |-> body, out |-> out,
     expectedStatus |-> expectedStatus]

NilIDs == [nil |-> TRUE]
IDList(ids) == [nil |-> FALSE, ids |-> ids]

RECURSIVE NumElems(_)
NumElems(ids) ==
    IF ids = << >> THEN << >> ELSE << JNum(Head(ids)) >> \o NumElems(Tail(ids))

\* json.Marshal of HardDelete's params
HardDeleteParams(id, force) ==
    Encode(JObj(<< Member("id", JNum(id)), Member("force", JBool(force)) >>))

\* json.Marshal of Merge's params: a nil slice is null, a nil contact omitted
MergeParams(primaryID, secondaryIDs, attrs) ==
    Encode(JObj(<< Member("primary_contact_id", JNum(primaryID)),
                   Member("secondary_contact_ids",
                          IF secondaryIDs.nil THEN JNull
                          ELSE JArr(NumElems(secondaryIDs.ids))) >>
                \o (IF attrs.nil THEN << >>
                    ELSE << Member("contact", ContactValue(attrs.c)) >>)))

CreatePlan(t) == Plan("POST", "contacts", ContactBody(t), ContactTarget, StatusCreated)
UpdatePlan(id, t) ==
    Plan("PUT", "contacts/" \o ToString(id), ContactBody(t), ContactTarget, StatusOK)
ViewPlan(id) == Plan("GET", "contacts/" \o ToString(id), NoBody, ContactTarget, StatusOK)
ListAllPlan == Plan("GET", "contacts", NoBody, ContactsTarget, StatusOK)
DeletePlan(id) == Plan("DELETE", "contacts/" \o ToString(id), NoBody, NoTarget, StatusOK)
HardDeletePlan(id, force) ==
    Plan("DELETE", "contacts/" \o ToString(id) \o "/hard_delete",
         BytesBody(HardDeleteParams(id, force)), NoTarget, StatusOK)
RestorePlan(id) ==
    Plan("PUT", "contacts/" \o ToString(id) \o "/restore", NoBody, NoTarget, StatusOK)
ListAllContactFieldsPlan == Plan("GET", "contact_fields", NoBody, FieldsTarget, StatusOK)
\* a search that expects 200
SearchContactsPlanOK(keyword) ==
    Plan("POST", "contacts/autocomplete?term=" \o keyword, NoBody, ContactsTarget,
         StatusOK)
SearchContactsPlan(keyword) ==
    Plan("POST", "contacts/autocomplete?term=" \o keyword, NoBody, ContactsTarget,
         StatusNoContent)
SendInvitePlan(id) ==
    Plan("POST", "contacts/" \o ToString(id) \o "/send_invite", NoBody, NoTarget,
         StatusNoContent)
MergePlan(primaryID, secondaryIDs, attrs) ==
    Plan("POST", "contacts/merge",
         BytesBody(MergeParams(primaryID, secondaryIDs, attrs)), NoTarget,
         StatusNoContent)

(***************************************************************************)
(* Inputs                                                                  *)
(***************************************************************************)
MaxId == 2
MaxErrors == 2

Ids == 0 .. MaxId

Ann == [ZeroContact EXCEPT !.Name = "Ann", !.Email = "ann@example.com"]
Bob == [ZeroContact EXCEPT !.ID = 5, !.Name = "Bob", !.Active = TRUE,
                           !.Description = StringPtr("vip")]
Contacts == {NilContact, ContactPtr(Ann), ContactPtr(Bob)}
Keywords == {"bob", "ann"}
SecondaryLists == {NilIDs, IDList(<< 1, 2 >>)}
TransportErrors == {"connection refused", "giving up after 5 attempts"}
Statuses == {StatusOK, StatusCreated, StatusNoContent, 400, 409}

\* field errors a server may report
DupEntry(info) ==
    JObj(<< Member("field", JStr("email")), Member("code", JStr("duplicate_value")),
            Member("message", JStr("already taken")) >> \o info)
UserId(val) == << Member("additional_info", JObj(<< Member("user_id", val) >>)) >>
PhoneEntry ==
    JObj(<< Member("field", JStr("phone")), Member("code", JStr("duplicate_value")),
            Member("additional_info", JObj(<< Member("user_id", JNum(9)) >>)) >>)
Entries ==
    {DupEntry(UserId(JNum(42))), DupEntry(UserId(JNum(7))),
     DupEntry(<< Member("additional_info", JObj(<< >>)) >>),
     DupEntry(UserId(JNull)), DupEntry(UserId(JStr("u-42"))), PhoneEntry}

EntryLists == UNION {[1 .. n -> Entries] : n \in 0 .. MaxErrors}

ErrorDoc(list) ==
    JObj(<< Member("description", JStr("Validation failed")),
            Member("errors", JArr(list)) >>)

RECURSIVE Pad(_)
\* the same text with insignificant space between its tokens
Pad(toks) ==
    IF toks = << >> THEN << Space >> ELSE << Space, Head(toks) >> \o Pad(Tail(toks))

OtherBodies ==
    {<< >>, << Garbage >>, << Space >>,
     Pad(Encode(ErrorDoc(<< DupEntry(UserId(JNum(42))) >>))),
     Pad(Encode(ContactValue(Bob))),
     Encode(JObj(<< >>)) \o << Garbage >>,
     Encode(JNull),
     Encode(JObj(<< Member("StatusCode", JNum(200)) >>)),
     Encode(JObj(<< Member("statuscode", JNum(500)),
                    Member("description", JStr("teapot")) >>)),
     Encode(JObj(<< Member("ResBody", JStr("overwritten")) >>)),
     Encode(JObj(<< Member("ReqBody", JStr("overwritten")) >>)),
     Encode(JObj(<< Member("Err", JNull) >>)),
     Encode(JObj(<< Member("errors", JNull) >>)),
     Encode(JObj(<< Member("errors", JStr("oops")) >>)),
     Encode(JObj(<< Member("id", JStr("five")), Member("name", JStr("Bob")) >>)),
     Encode(ContactValue(Ann)),
     Encode(JArr(<< ContactValue(Ann), JNull, ContactValue(Bob) >>)),
     Encode(JArr(<< JObj(<< Member("id", JNum(3)), Member("label", JStr("Name")),
                           Member("name", JStr("name")) >>) >>))}

ResponseBodies == {Encode(ErrorDoc(list)) : list \in EntryLists} \cup OtherBodies

(***************************************************************************)
(* State                                                                   *)
(***************************************************************************)
VARIABLES
    client,     \* the client built by NewClient
    pc,         \* "idle", "do" (request built) or "returned"
    call,       \* the contact operation in progress and its arguments
    req,        \* the *Request newRequest built
    out,        \* the decode target
    expected,   \* the expectedStatus argument of do
    wire,       \* the requests handed to the transport by this call
    resp,       \* the response the transport returned
    doErr,      \* the error c.httpClient.Do returned ("" for none)
    err,        \* the error do returned
    message,    \* the result of Error() on the returned APIError
    duplicate   \* the result of IsDuplicate() on the returned APIError

vars ==
    << client, pc, call, req, out, expected, wire, resp, doErr, err, message,
       duplicate >>

None == [none |-> TRUE]

Idle ==
    /\ pc = "idle"
    /\ call = None
    /\ req = None
    /\ out = NoTarget
    /\ expected = 0
    /\ wire = << >>
    /\ resp = None
    /\ doErr = ""
    /\ err = None
    /\ message = None
    /\ duplicate = None

Init ==
    /\ client = NewClient("acme", "secret-key")
    /\ Idle

\* a contact operation up to its call of do
Begin(op, args, plan) ==
    /\ pc = "idle"
    /\ pc' = "do"
    /\ call' = [op |-> op, args |-> args]
    /\ req' = newRequest(client, plan.method, plan.endpoint, plan.body)
    /\ out' = plan.out
    /\ expected' = plan.expectedStatus
    /\ UNCHANGED << client, wire, resp, doErr, err, message, duplicate >>

Create == \E t \in Contacts : Begin("Create", << t >>, CreatePlan(t))
Update == \E id \in Ids, t \in Contacts : Begin("Update", << id, t >>, UpdatePlan(id, t))
View == \E id \in Ids : Begin("View", << id >>, ViewPlan(id))
ListAll == Begin("ListAll", << >>, ListAllPlan)
Delete == \E id \in Ids : Begin("Delete", << id >>, DeletePlan(id))
HardDelete ==
    \E id \in Ids, force \in BOOLEAN :
        Begin("HardDelete", << id, force >>, HardDeletePlan(id, force))
Restore == \E id \in Ids : Begin("Restore", << id >>, RestorePlan(id))
ListAllContactFields == Begin("ListAllContactFields", << >>, ListAllContactFieldsPlan)
SearchContacts ==
    \E keyword \in Keywords :
        Begin("SearchContacts", << keyword >>, SearchContactsPlan(keyword))
SendInvite == \E id \in Ids : Begin("SendInvite", << id >>, SendInvitePlan(id))
Merge ==
    \E primaryID \in Ids, secondaryIDs \in SecondaryLists, attrs \in Contacts :
        Begin("Merge", << primaryID, secondaryIDs, attrs >>,
              MergePlan(primaryID, secondaryIDs, attrs))

\* the caller's view of what do returned
Returns(r) ==
    /\ err' = r.err
    /\ out' = r.out
    /\ req' = r.req
    /\ resp' = r.resp

\* a response as the transport hands it over
Response(status, body) == [StatusCode |-> status, Body |-> Stream(body, FALSE)]

\* do: the transport fails to produce a response
DoTransportError ==
    /\ pc = "do"
    /\ \E e \in TransportErrors :
        /\ doErr' = e
        /\ Returns(doFailed(req, out, e))
    /\ wire' = Append(wire, Sent(req))
    /\ pc' = "returned"
    /\ UNCHANGED << client, call, expected, message, duplicate >>

\* do: the transport returns a response
DoResponse ==
    /\ pc = "do"
    /\ \E status \in Statuses, body \in ResponseBodies :
        Returns(doResponded(req, Response(status, body), out, expected))
    /\ doErr' = ""
    /\ wire' = Append(wire, Sent(req))
    /\ pc' = "returned"
    /\ UNCHANGED << client, call, expected, message, duplicate >>

\* the caller asks the returned APIError for its message
CallError ==
    /\ pc = "returned"
    /\ err.kind = "api"
    /\ message = None
    /\ message' = Error(err.api)
    /\ UNCHANGED << client, pc, call, req, out, expected, wire, resp, doErr, err,
                   duplicate >>

\* the caller asks the returned APIError whether it reports a duplicate
CallIsDuplicate ==
    /\ pc = "returned"
    /\ err.kind = "api"
    /\ duplicate = None
    /\ duplicate' = IsDuplicate(err.api)
    /\ UNCHANGED << client, pc, call, req, out, expected, wire, resp, doErr, err,
                   message >>

\* the caller is done with the results of the call
Return ==
    /\ pc = "returned"
    /\ pc' = "idle"
    /\ call' = None
    /\ req' = None
    /\ out' = NoTarget
    /\ expected' = 0
    /\ wire' = << >>
    /\ resp' = None
    /\ doErr' = ""
    /\ err' = None
    /\ message' = None
    /\ duplicate' = None
    /\ UNCHANGED client

Next ==
    \/ Create \/ Update \/ View \/ ListAll \/ Delete \/ HardDelete \/ Restore
    \/ ListAllContactFields \/ SearchContacts \/ SendInvite \/ Merge
    \/ DoTransportError \/ DoResponse
    \/ CallError \/ CallIsDuplicate \/ Return

Spec == Init /\ [][Next]_vars

(***************************************************************************)
(* Concurrent use of one client: every caller runs its own contact        *)
(* operation; the locals of a call (req, out, raw, res, err) are the      *)
(* caller's components of the variables, the client is shared.            *)
(***************************************************************************)
NumCallers == 2
Callers == 1 .. NumCallers

Invocation(op, args, plan) == [op |-> op, args |-> args, plan |-> plan]

ConcurrentCalls ==
    {Invocation("Create", << ContactPtr(Ann) >>, CreatePlan(ContactPtr(Ann))),
     Invocation("View", << 1 >>, ViewPlan(1)),
     Invocation("HardDelete", << 1, TRUE >>, HardDeletePlan(1, TRUE)),
     Invocation("Restore", << 2 >>, RestorePlan(2))}
ConcurrentStatuses == {StatusOK, 400}
ConcurrentBodies ==
    {<< >>, Encode(ContactValue(Bob)),
     Encode(ErrorDoc(<< DupEntry(UserId(JNum(42))) >>))}

InitConcurrent ==
    /\ client = NewClient("acme", "secret-key")
    /\ pc = [c \in Callers |-> "idle"]
    /\ call = [c \in Callers |-> None]
    /\ req = [c \in Callers |-> None]
    /\ out = [c \in Callers |-> NoTarget]
    /\ expected = [c \in Callers |-> 0]
    /\ wire = [c \in Callers |-> << >>]
    /\ resp = [c \in Callers |-> None]
    /\ doErr = [c \in Callers |-> ""]
    /\ err = [c \in Callers |-> None]
    /\ message = None
    /\ duplicate = None

\* caller c runs a contact operation up to its call of do
ConcurrentBegin ==
    \E c \in Callers, i \in ConcurrentCalls :
        /\ pc[c] = "idle"
        /\ pc' = [pc EXCEPT ![c] = "do"]
        /\ call' = [call EXCEPT ![c] = [op |-> i.op, args |-> i.args]]
        /\ req' = [req EXCEPT ![c] = newRequest(client, i.plan.method,
                                                 i.plan.endpoint, i.plan.body)]
        /\ out' = [out EXCEPT ![c] = i.plan.out]
        /\ expected' = [expected EXCEPT ![c] = i.plan.expectedStatus]
        /\ UNCHANGED << client, wire, resp, doErr, err, message, duplicate >>

\* what do returned to caller c, e being the transport's error ("" for none)
ConcurrentReturns(c, e, r) ==
    /\ pc' = [pc EXCEPT ![c] = "returned"]
    /\ wire' = [wire EXCEPT ![c] = Append(@, Sent(req[c]))]
    /\ doErr' = [doErr EXCEPT ![c] = e]
    /\ err' = [err EXCEPT ![c] = r.err]
    /\ out' = [out EXCEPT ![c] = r.out]
    /\ req' = [req EXCEPT ![c] = r.req]
    /\ resp' = [resp EXCEPT ![c] = r.resp]
    /\ UNCHANGED << client, call, expected, message, duplicate >>

\* do of caller c: the transport fails
ConcurrentTransportError ==
    \E c \in Callers, e \in TransportErrors :
        /\ pc[c] = "do"
        /\ ConcurrentReturns(c, e, doFailed(req[c], out[c], e))

\* do of caller c: the transport returns a response
ConcurrentResponse ==
    \E c \in Callers, status \in ConcurrentStatuses, body \in ConcurrentBodies :
        /\ pc[c] = "do"
        /\ ConcurrentReturns(c, "", doResponded(req[c], Response(status, body),
                                                out[c], expected[c]))

\* caller c is done with the results of its call
ConcurrentReturn ==
    \E c \in Callers :
        /\ pc[c] = "returned"
        /\ pc' = [pc EXCEPT ![c] = "idle"]
        /\ call' = [call EXCEPT ![c] = None]
        /\ req' = [req EXCEPT ![c] = None]
        /\ out' = [out EXCEPT ![c] = NoTarget]
        /\ expected' = [expected EXCEPT ![c] = 0]
        /\ wire' = [wire EXCEPT ![c] = << >>]
        /\ resp' = [resp EXCEPT ![c] = None]
        /\ doErr' = [doErr EXCEPT ![c] = ""]
        /\ err' = [err EXCEPT ![c] = None]
        /\ UNCHANGED << client, message, duplicate >>

NextConcurrent ==
    \/ ConcurrentBegin
    \/ ConcurrentTransportError
    \/ ConcurrentResponse
    \/ ConcurrentReturn

SpecConcurrent == InitConcurrent /\ [][NextConcurrent]_vars

(***************************************************************************)
(* Properties                                                              *)
(***************************************************************************)
Returned == pc = "returned"
\* do returned after the transport produced a response
Answered == Returned /\ resp # None
Mismatch == Answered /\ resp.StatusCode # expected
Match == Answered /\ resp.StatusCode = expected

\* the request body as the transport sent it, the response body as received
SentBody == wire[1].body
ReceivedBody == resp.Body.data

\* the compacted JSON text of a body, the empty string when it is not JSON
CompactedOrEmpty(data) ==
    IF CheckValid(data) THEN SelectSeq(data, LAMBDA tk : tk.k # "ws") ELSE << >>

\* C1: on a status mismatch do returns an APIError whose StatusCode is the
\* status code observed on the response, whatever the response body
C1_StatusCodeObserved ==
    Mismatch => err.kind = "api" /\ err.api.StatusCode = resp.StatusCode

\* C2: on a status mismatch ReqBody and ResBody of the returned APIError are
\* the compacted JSON of the request body sent and of the response body
\* received, and empty when the body is not JSON
C2_PayloadsCaptured ==
    Mismatch =>
        /\ err.kind = "api"
        /\ err.api.ReqBody = CompactedOrEmpty(SentBody)
        /\ err.api.ResBody = CompactedOrEmpty(ReceivedBody)

\* the entries of a list of field errors that signal a duplicate: field
\* "email", code "duplicate_value", user_id present and not null
Signals(errors) ==
    {i \in 1 .. Len(errors) :
        /\ errors[i].Field = "email"
        /\ errors[i].Code = "duplicate_value"
        /\ "user_id" \in DOMAIN errors[i].AdditionalInfo
        /\ errors[i].AdditionalInfo["user_id"] # JNull}

FirstSignal(errors) ==
    CHOOSE i \in Signals(errors) : \A j \in Signals(errors) : i <= j

\* C3: IsDuplicate returns (true, id) exactly when some field error signals
\* a duplicate, id being the user_id of the first such entry, and (false, 0)
\* otherwise.  Stated of the calls that return a result, so that a violation
\* is a wrong result and not the failed type assertion on a user_id that is
\* not a number.
C3_IsDuplicateFirstSignal ==
    (Returned /\ duplicate # None /\ ~duplicate.fault) =>
        LET errors == err.api.Errors IN
        IF Signals(errors) # {}
        THEN /\ duplicate.dup
             /\ JNum(duplicate.id) = errors[FirstSignal(errors)].AdditionalInfo["user_id"]
        ELSE duplicate = [fault |-> FALSE, dup |-> FALSE, id |-> 0]

\* the JSON object an operation serializes before it calls newRequest
Preserialized ==
    IF call.op = "HardDelete"
    THEN << LBrace, StrTok("id"), Colon, NumTok(call.args[1]), Comma,
            StrTok("force"), Colon, LitTok(IF call.args[2] THEN "true" ELSE "false"),
            RBrace >>
    ELSE MergeParams(call.args[1], call.args[2], call.args[3])

\* C4: the body HardDelete and Merge put on the wire is exactly the JSON
\* object they serialized; newRequest does not encode it again
C4_RawBytesOnWire ==
    (Returned /\ call.op \in {"HardDelete", "Merge"}) => SentBody = Preserialized

\* the decode target as the operation passed it to do
Fresh(target) ==
    CASE target.kind = "contact" -> ContactTarget
      [] target.kind = "contacts" -> ContactsTarget
      [] target.kind = "fields" -> FieldsTarget
      [] OTHER -> NoTarget

Untouched(target) == target = Fresh(target)

\* the body, read as a JSON stream, holds a first value that fits the target
Decodes(data, target) ==
    /\ ParseValue(data, 1).ok
    /\ DecodeInto(target, ParseValue(data, 1).val).err = ""

\* C5: when the status equals expectedStatus no APIError is built: do returns
\* nil if there is no decode target or the body decodes into it, and the
\* plain decode error otherwise
C5_MatchNeverApiError ==
    Match =>
        /\ err.kind # "api"
        /\ IF out.kind = "none" \/ Decodes(ReceivedBody, Fresh(out))
           THEN err = NilError
           ELSE err.kind = "decode"

C5_Witness == Match /\ err.kind = "decode" /\ resp.StatusCode = StatusCreated

\* C6: when the transport fails do returns the transport's error itself;
\* no payload is captured, nothing is decoded, the target is unchanged
C6_TransportErrorUnchanged ==
    (Returned /\ doErr # "") =>
        /\ err = [kind |-> "transport", cause |-> doErr]
        /\ resp = None
        /\ req.body.reads = 1
        /\ Untouched(out)

C6_Witness == Returned /\ doErr # "" /\ out.kind = "contact"

\* C7: whenever the transport returned a response, its body is closed exactly
\* once when do returns and was never read after the close
C7_BodyClosedOnce ==
    Answered =>
        /\ resp.Body.closed
        /\ resp.Body.closes = 1
        /\ resp.Body.late = 0

C7_Witness ==
    /\ Match
    /\ err.kind = "decode"
    /\ resp.Body.reads = 1
    /\ resp.Body.closes = 1

\* C8: the message of an APIError is "received status code <statusCode>
\* (<expectedStatus> expected)", then " - ", then the resPayload it was
\* built from
C8_MessageCarriesPayload ==
    (Returned /\ message # None) =>
        /\ ~message.fault
        /\ message.msg =
              "received status code " \o ToString(resp.StatusCode) \o " ("
                \o ToString(expected) \o " expected) - "
                \o Render(CompactedOrEmpty(ReceivedBody))

\* the endpoint table: verb, relative path and expected status per operation
Endpoint(verb, path, status) == [verb |-> verb, path |-> path, status |-> status]

Table(c) ==
    CASE c.op = "Create" -> Endpoint("POST", "contacts", 201)
      [] c.op = "Update" -> Endpoint("PUT", "contacts/" \o ToString(c.args[1]), 200)
      [] c.op = "View" -> Endpoint("GET", "contacts/" \o ToString(c.args[1]), 200)
      [] c.op = "ListAll" -> Endpoint("GET", "contacts", 200)
      [] c.op = "Delete" -> Endpoint("DELETE", "contacts/" \o ToString(c.args[1]), 200)
      [] c.op = "HardDelete" ->
            Endpoint("DELETE", "contacts/" \o ToString(c.args[1]) \o "/hard_delete", 200)
      [] c.op = "Restore" ->
            Endpoint("PUT", "contacts/" \o ToString(c.args[1]) \o "/restore", 200)
      [] c.op = "ListAllContactFields" -> Endpoint("GET", "contact_fields", 200)
      [] c.op = "SearchContacts" ->
            Endpoint("POST", "contacts/autocomplete?term=" \o c.args[1], 204)
      [] c.op = "SendInvite" ->
            Endpoint("POST", "contacts/" \o ToString(c.args[1]) \o "/send_invite", 204)
      [] c.op = "Merge" -> Endpoint("POST", "contacts/merge", 204)

C10_NoTargetNoRead ==
    (Match /\ out.kind = "none") =>
        /\ err = NilError
        /\ resp.Body.reads = 0
        /\ resp.Body.pos = 0

C10_Witness ==
    /\ Match
    /\ call.op = "Restore"
    /\ ReceivedBody = << Garbage >>
    /\ err = NilError
    /\ resp.Body.reads = 0

\* the reqPayload and resPayload arguments do passes to NewApiError: what is
\* left of the request body once the transport has sent it, and the body
\* received, each compacted or empty
ReqPayloadArg == CompactedOrEmpty(Rest(req.body))
ResPayloadArg == CompactedOrEmpty(ReceivedBody)

\* C12: NewApiError returns an error whose captured request and response
\* bodies, message error and status code are the ones it was called with,
\* whatever resPayload holds: decoding resPayload touches only Description
\* and Errors
C12_OnlyEnrichment ==
    Mismatch =>
        /\ err.kind = "api"
        /\ err.api.ReqBody = ReqPayloadArg
        /\ err.api.ResBody = ResPayloadArg
        /\ err.api.Err = [nil |-> FALSE,
                          msg |-> StatusMessage(resp.StatusCode, expected)]
        /\ err.api.StatusCode = resp.StatusCode

\* C13: IsDuplicate returns a result, without a fault, on every APIError
\* built from a server body, a user_id that is not a number included
C13_IsDuplicateNeverFaults ==
    (Returned /\ duplicate # None) => ~duplicate.fault

\* the locals of caller c's call
Local(c) ==
    << pc[c], call[c], req[c], out[c], expected[c], wire[c], resp[c],
       doErr[c], err[c] >>

\* request r targets the base URL plus the relative path of caller c's
\* operation and carries the Basic credentials (API key, "X")
OwnRequest(c, r) ==
    /\ r.url = client.baseURL \o Table(call[c]).path
    /\ r.method = Table(call[c]).verb
    /\ r.username = client.apiKey
    /\ r.password = "X"

\* what caller c's call returns when it is the only call on the client, given
\* the invocation it made and the transport outcome it got
AloneOn(c, i) ==
    IF doErr[c] # ""
    THEN doFailed(newRequest(client, i.plan.method, i.plan.endpoint, i.plan.body),
                  i.plan.out, doErr[c])
    ELSE doResponded(newRequest(client, i.plan.method, i.plan.endpoint, i.plan.body),
                     Response(resp[c].StatusCode, resp[c].Body.data),
                     i.plan.out, i.plan.expectedStatus)
Alone(c) ==
    AloneOn(c, CHOOSE i \in ConcurrentCalls :
                   i.op = call[c].op /\ i.args = call[c].args)

Isolated(c, r) ==
    /\ err[c] = r.err
    /\ out[c] = r.out
    /\ req[c] = r.req
    /\ resp[c] = r.resp

ClientKept ==
    /\ client = NewClient("acme", "secret-key")
    /\ \A c \in Callers :
        /\ pc[c] # "idle" => OwnRequest(c, req[c])
        /\ \A k \in 1 .. Len(wire[c]) : OwnRequest(c, wire[c][k])
        /\ pc[c] = "returned" => Len(wire[c]) = 1 /\ Isolated(c, Alone(c))

OneCallerSteps ==
    /\ client' = client
    /\ \E c \in Callers : \A d \in Callers \ {c} : Local(d)' = Local(d)

\* C11: under any interleaving of calls on one client, the API key, the base
\* URL and the transport handle keep their construction values; every request
\* targets base URL + the relative path of its own operation with Basic
\* credentials (API key, "X"); every call returns what it returns when run
\* alone, and a step of one call leaves the locals of every other call as
\* they were
C11_CallsIsolated == []ClientKept /\ [][OneCallerSteps]_vars

C11_Witness ==
    \E c \in Callers, d \in Callers :
        /\ c # d
        /\ pc[c] = "returned" /\ err[c].kind = "api"
        /\ pc[d] = "returned" /\ err[d] = NilError
        /\ wire[c][1].url # wire[d][1].url
        /\ client = NewClient("acme", "secret-key")

====
